---------------------------- MODULE Spec2Model ----------------------------
(***************************************************************************)
(* Hasegawa-Wakatani plasma step of phi/physics/plasma.py.                 *)
(*                                                                         *)
(* Field samples are exact rationals <<n, d>> (d > 0, lowest terms); the   *)
(* non-finite floating point values are the pairs with d = 0:              *)
(* <<1,0>> = +inf, <<-1,0>> = -inf, <<0,0>> = nan.  Arithmetic follows the *)
(* IEEE rules for them (x/0, inf*0, inf-inf), rounding is not modelled.    *)
(* Arrays are functions over 0-based index tuples, as in numpy.            *)
(***************************************************************************)
EXTENDS Integers, FiniteSets, Sequences, TLC

VARIABLES
    hw,         \* the HasegawaWakatani object: kap, N, poisson_solver
    plasma,     \* the current PlasmaHW state
    status,     \* "ok", or the exception that ended the last step
    steps,      \* number of step calls made
    call,       \* inputs and intermediate values of the last step call
    bShape,     \* bracket inputs: <<K, H, W>> of the stack
    bZeta,      \* bracket inputs: stack zeta
    bPsi,       \* bracket inputs: stack psi
    bD,         \* bracket inputs: grid spacing d
    bOut,       \* results of the bracket calls
    dIn,        \* diffuse inputs: rank, field, N1, N2
    dOut        \* results of the diffuse calls

vars == <<hw, plasma, status, steps, call, bShape, bZeta, bPsi, bD, bOut, dIn, dOut>>
stepVars == <<hw, plasma, status, steps, call>>
bracketVars == <<bShape, bZeta, bPsi, bD, bOut>>
diffuseVars == <<dIn, dOut>>

(***************************************************************************)
(* Bounds of the model.                                                    *)
(***************************************************************************)
NZ == 2          \* cells along the field-aligned axis (3D domain)
NY == 3          \* cells along y
NX == 3          \* cells along x
MaxVal == 1      \* largest sample magnitude of an input field
MaxN == 1        \* largest diffusion order
MaxSteps == 1    \* step calls per run
MaxPat == 3      \* number of dense input patterns

(***************************************************************************)
(* Exact arithmetic with the non-finite values of floating point.          *)
(***************************************************************************)
Abs(n) == IF n < 0 THEN -n ELSE n
Sign(n) == IF n < 0 THEN -1 ELSE IF n > 0 THEN 1 ELSE 0

RECURSIVE GCD(_, _)
GCD(a, b) == IF b = 0 THEN a ELSE GCD(b, a % b)

Norm(n, d) ==
    IF d = 0 THEN <<Sign(n), 0>>
    ELSE LET g == GCD(Abs(n), Abs(d))
             s == Sign(d)
         IN  <<(s * n) \div g, (s * d) \div g>>

R(n) == <<n, 1>>
NaN == <<0, 0>>
IsZero(a) == a = R(0)

Neg(a) == <<-a[1], a[2]>>
Add(a, b) ==
    IF a[2] = 1 /\ b[2] = 1 THEN <<a[1] + b[1], 1>>
    ELSE IF a[2] = 0 \/ b[2] = 0
    THEN (IF a[2] # 0 THEN b
          ELSE IF b[2] # 0 THEN a
          ELSE IF a = b THEN a ELSE NaN)
    ELSE LET g == GCD(a[2], b[2])
         IN  Norm(a[1] * (b[2] \div g) + b[1] * (a[2] \div g), (a[2] \div g) * b[2])
Sub(a, b) == Add(a, Neg(b))
Mul(a, b) ==
    IF a[2] = 1 /\ b[2] = 1 THEN <<a[1] * b[1], 1>>
    ELSE IF a[2] = 0 \/ b[2] = 0 THEN <<Sign(a[1]) * Sign(b[1]), 0>>
    ELSE LET g == GCD(Abs(a[1]), b[2])
             h == GCD(Abs(b[1]), a[2])
         IN  Norm((a[1] \div g) * (b[1] \div h), (a[2] \div h) * (b[2] \div g))
Recip(a) == Norm(a[2], a[1])
Div(a, b) == Mul(a, Recip(b))

\* the i-th index tuple of an array of shape sh, in C order
CellAt(i, sh) == <<i \div (sh[2] * sh[3]), (i \div sh[3]) % sh[2], i % sh[3]>>

\* the sum of f[CellAt(i, sh)] for lo <= i < hi, by halving
RECURSIVE SumRange(_, _, _, _)
SumRange(f, sh, lo, hi) ==
    IF hi <= lo THEN R(0)
    ELSE IF hi = lo + 1 THEN f[CellAt(lo, sh)]
    ELSE LET mid == (lo + hi) \div 2
         IN  Add(SumRange(f, sh, lo, mid), SumRange(f, sh, mid, hi))

(***************************************************************************)
(* Arrays.  A 3D array of shape <<K, H, W>> is a function over Idx3(shape),*)
(* a 2D array of shape <<H, W>> a function over Idx2(H, W).                *)
(***************************************************************************)
\* Array(f) is f: comparing f with itself has every sample evaluated once, as
\* numpy stores an array, instead of once per later read.
Array(f) == IF f = f THEN f ELSE f
Idx2(H, W) == (0 .. H - 1) \X (0 .. W - 1)
Idx3(sh) == (0 .. sh[1] - 1) \X (0 .. sh[2] - 1) \X (0 .. sh[3] - 1)
Slice(A, k, H, W) == Array([c \in Idx2(H, W) |-> A[<<k, c[1], c[2]>>]])
ZeroArr(sh) == [c \in Idx3(sh) |-> R(0)]
Scale(A, s) == Array([c \in DOMAIN A |-> Mul(A[c], s)])
Plus(A, B) == Array([c \in DOMAIN A |-> Add(A[c], B[c])])
Minus(A, B) == Array([c \in DOMAIN A |-> Sub(A[c], B[c])])

\* np.pad(A, 1, mode='wrap') of a 2D array: shape (H+2, W+2)
periodic_padding(A, H, W) ==
    Array([c \in Idx2(H + 2, W + 2) |-> A[<<(c[1] - 1) % H, (c[2] - 1) % W>>]])

\* np.pad(A, 1, mode='wrap') of a 3D array: every axis is padded
periodic_padding3(A, sh) ==
    Array([c \in Idx3(<<sh[1] + 2, sh[2] + 2, sh[3] + 2>>) |->
        A[<<(c[1] - 1) % sh[1], (c[2] - 1) % sh[2], (c[3] - 1) % sh[3]>>]])

(***************************************************************************)
(* The Arakawa stencil at centre <<i, j>> of arrays z, p (relative         *)
(* indexing, the eight terms of arakawa_stencil).                          *)
(***************************************************************************)
arakawa_stencil(z, p, i, j) ==
    LET Z(a, b) == z[<<i + a, j + b>>]
        P(a, b) == p[<<i + a, j + b>>]
        t1 == Mul(Z(1, 0), Add(Sub(P(0, 1), P(0, -1)), Sub(P(1, 1), P(1, -1))))
        t2 == Mul(Z(-1, 0), Add(Sub(P(0, 1), P(0, -1)), Sub(P(-1, 1), P(-1, -1))))
        t3 == Mul(Z(0, 1), Add(Sub(P(1, 0), P(-1, 0)), Sub(P(1, 1), P(-1, 1))))
        t4 == Mul(Z(0, -1), Add(Sub(P(1, 0), P(-1, 0)), Sub(P(1, -1), P(-1, -1))))
        t5 == Mul(Z(1, -1), Sub(P(1, 0), P(0, -1)))
        t6 == Mul(Z(1, 1), Sub(P(0, 1), P(1, 0)))
        t7 == Mul(Z(-1, 1), Sub(P(0, 1), P(-1, 0)))
        t8 == Mul(Z(-1, -1), Sub(P(-1, 0), P(0, -1)))
    IN  Sub(Sub(Add(Add(Add(Sub(Sub(t1, t2), t3), t4), t5), t6), t7), t8)

\* the same expression with the sixth term dropped
arakawa_vec_num_dropped(z, p, i, j) ==
    LET Z(a, b) == z[<<i + a, j + b>>]
        P(a, b) == p[<<i + a, j + b>>]
        t1 == Mul(Z(2, 1), Add(Sub(P(1, 2), P(1, 0)), Sub(P(2, 2), P(2, 0))))
        t2 == Mul(Z(0, 1), Add(Sub(P(1, 2), P(1, 0)), Sub(P(0, 2), P(0, 0))))
        t3 == Mul(Z(1, 2), Add(Sub(P(2, 1), P(0, 1)), Sub(P(2, 2), P(0, 2))))
        t4 == Mul(Z(1, 0), Add(Sub(P(2, 1), P(0, 1)), Sub(P(2, 0), P(0, 0))))
        t5 == Mul(Z(2, 0), Sub(P(2, 1), P(1, 0)))
        t7 == Mul(Z(0, 2), Sub(P(1, 2), P(0, 1)))
        t8 == Mul(Z(0, 0), Sub(P(0, 1), P(1, 0)))
    IN  Sub(Sub(Add(Add(Sub(Sub(t1, t2), t3), t4), t5), t7), t8)

(***************************************************************************)
(* The numerator of arakawa_vec at output index <<i, j>>: the slices       *)
(* [2:], [1:-1], [0:-2] of the padded arrays are offsets 2, 1, 0.          *)
(***************************************************************************)
arakawa_vec_num(z, p, i, j) ==
    LET Z(a, b) == z[<<i + a, j + b>>]
        P(a, b) == p[<<i + a, j + b>>]
        t1 == Mul(Z(2, 1), Add(Sub(P(1, 2), P(1, 0)), Sub(P(2, 2), P(2, 0))))
        t2 == Mul(Z(0, 1), Add(Sub(P(1, 2), P(1, 0)), Sub(P(0, 2), P(0, 0))))
        t3 == Mul(Z(1, 2), Add(Sub(P(2, 1), P(0, 1)), Sub(P(2, 2), P(0, 2))))
        t4 == Mul(Z(1, 0), Add(Sub(P(2, 1), P(0, 1)), Sub(P(2, 0), P(0, 0))))
        t5 == Mul(Z(2, 0), Sub(P(2, 1), P(1, 0)))
        t6 == Mul(Z(2, 2), Sub(P(1, 2), P(2, 1)))
        t7 == Mul(Z(0, 2), Sub(P(1, 2), P(0, 1)))
        t8 == Mul(Z(0, 0), Sub(P(0, 1), P(1, 0)))
    IN  Sub(Sub(Add(Add(Add(Sub(Sub(t1, t2), t3), t4), t5), t6), t7), t8)

\* arakawa_vec(zeta, psi, d) on padded (H+2, W+2) arrays: shape (H, W)
arakawa_vec(z, p, d, H, W) ==
    Array([c \in Idx2(H, W) |-> Div(arakawa_vec_num(z, p, c[1], c[2]), R(4 * d * d))])

\* periodic_arakawa(zeta, psi, d) on (H, W) arrays
periodic_arakawa(zeta, psi, d, H, W) ==
    arakawa_vec(periodic_padding(zeta, H, W), periodic_padding(psi, H, W), d, H, W)

(***************************************************************************)
(* arakawa_3d(z, p): the stencil on every slice of the stack, on arrays of *)
(* shape (K, Hp, Wp); numba's stencil leaves the border cells at 0.  The   *)
(* call in periodic_arakawa_3d passes no d, so d is the default 1.         *)
(***************************************************************************)
arakawa_3d(z, p, d, K, Hp, Wp) ==
    LET zs == [k \in 0 .. K - 1 |-> Slice(z, k, Hp, Wp)]
        ps == [k \in 0 .. K - 1 |-> Slice(p, k, Hp, Wp)]
        border(c) == c[2] = 0 \/ c[2] = Hp - 1 \/ c[3] = 0 \/ c[3] = Wp - 1
        res == [c \in Idx3(<<K, Hp, Wp>>) |->
                   IF border(c) THEN R(0)
                   ELSE arakawa_stencil(zs[c[1]], ps[c[1]], c[2], c[3])]
    IN  Array([c \in Idx3(<<K, Hp, Wp>>) |-> Div(res[c], R(12 * d * d))])

\* periodic_arakawa_3d(zeta, psi, d) on (K, H, W) stacks; d is not used
periodic_arakawa_3d(zeta, psi, d, sh) ==
    LET zp == periodic_padding3(zeta, sh)
        pp == periodic_padding3(psi, sh)
        \* z[1:-1, ...], p[1:-1, ...]
        zc == Array([c \in Idx3(<<sh[1], sh[2] + 2, sh[3] + 2>>) |->
                        zp[<<c[1] + 1, c[2], c[3]>>]])
        pc == Array([c \in Idx3(<<sh[1], sh[2] + 2, sh[3] + 2>>) |->
                        pp[<<c[1] + 1, c[2], c[3]>>]])
        res == arakawa_3d(zc, pc, 1, sh[1], sh[2] + 2, sh[3] + 2)
    IN  \* [:, 1:-1, 1:-1]
        Array([c \in Idx3(sh) |-> res[<<c[1], c[2] + 1, c[3] + 1>>]])


(***************************************************************************)
(* Finite-difference operators of the field library (phi.math.nd and       *)
(* CenteredGrid.gradient / laplace), with periodic wrap, on stacks of      *)
(* shape sh = <<Z, Y, X>>.  Grid spacing is 1.                             *)
(***************************************************************************)
Two == R(2)
Four == R(4)

\* math.nd.laplace in the perpendicular directions y, x
LaplacePerp(A, sh) ==
    Array([c \in Idx3(sh) |->
        LET yp == A[<<c[1], (c[2] + 1) % sh[2], c[3]>>]
            ym == A[<<c[1], (c[2] - 1) % sh[2], c[3]>>]
            xp == A[<<c[1], c[2], (c[3] + 1) % sh[3]>>]
            xm == A[<<c[1], c[2], (c[3] - 1) % sh[3]>>]
        IN  Sub(Add(Add(yp, ym), Add(xp, xm)), Mul(Four, A[c]))])

\* laplace(axes=[0]): second difference along the field-aligned axis
LaplaceZ(A, sh) ==
    Array([c \in Idx3(sh) |->
        LET zp == A[<<(c[1] + 1) % sh[1], c[2], c[3]>>]
            zm == A[<<(c[1] - 1) % sh[1], c[2], c[3]>>]
        IN  Sub(Add(zp, zm), Mul(Two, A[c]))])

\* gradient(difference='central', padding='wrap'), y component
GradY(A, sh) ==
    Array([c \in Idx3(sh) |->
        Div(Sub(A[<<c[1], (c[2] + 1) % sh[2], c[3]>>],
                A[<<c[1], (c[2] - 1) % sh[2], c[3]>>]), Two)])

\* gradient(difference='central', padding='wrap'), x component
GradX(A, sh) ==
    Array([c \in Idx3(sh) |->
        Div(Sub(A[<<c[1], c[2], (c[3] + 1) % sh[3]>>],
                A[<<c[1], c[2], (c[3] - 1) % sh[3]>>]), Two)])

\* np.sum and math.mean over all samples
Sum(A, sh) == SumRange(A, sh, 0, sh[1] * sh[2] * sh[3])
Mean(A, sh) == Div(Sum(A, sh), R(sh[1] * sh[2] * sh[3]))

(***************************************************************************)
(* diffuse(field, N, nu=1).  rank is field.rank (2 or 3), sh the shape of  *)
(* field.data[0, ..., 0].  The result is [err, val]: err = "none" and the  *)
(* returned array, or the exception raised.  For N = 0 the code returns    *)
(* the scalar 0, which broadcasts as the zero array.  In the rank 3 branch *)
(* the name `axes` is bound nowhere in the module, so evaluating the call  *)
(* raises NameError.  range(N) is empty for N <= 0.                        *)
(***************************************************************************)
RECURSIVE LaplaceLoop(_, _, _)
LaplaceLoop(A, sh, n) ==
    IF n <= 0 THEN A ELSE LaplaceLoop(LaplacePerp(A, sh), sh, n - 1)

diffuse(field, rank, sh, N) ==
    IF N = 0 THEN [err |-> "none", val |-> ZeroArr(sh)]
    ELSE IF N > 0 /\ rank = 3 THEN [err |-> "NameError", val |-> <<>>]
    ELSE [err |-> "none", val |-> Scale(LaplaceLoop(field, sh, N), R(1))]

(***************************************************************************)
(* solve_poisson(omega2d, fluiddomain, poisson_solver=SparseCG()).         *)
(* answer is what poisson_solver.solve returned.                           *)
(***************************************************************************)
DefaultSolver == "SparseCG"

solve_poisson(omega2d, poisson_solver, answer) ==
    [solver |-> poisson_solver, rhs |-> omega2d, guess |-> "None", phi |-> answer]

\* euler(x, dx, dt) = x + dx * dt
euler(x, dx, dt) == Plus(x, Scale(dx, R(dt)))

\* the age written by a step whose dt is taken in absolute value
NextAgeAbs(age, dt) == age + Abs(dt)

\* age=(plasma.age + dt)
NextAge(age, dt) == age + dt

\* self.nu = 1. in PlasmaHW.__init__
Nu == 1


(***************************************************************************)
(* HasegawaWakatani.step2d(plasma, dt).  h is the physics object, p the    *)
(* input state, answer the potential the solver returns for the right-hand *)
(* side it is given.  The result is [status, plasma, call].                *)
(* p.shape is <<1, Y, X>>: the 2D state has no field-aligned axis.         *)
(***************************************************************************)
Lift(A2, sh) == Array([c \in Idx3(sh) |-> A2[<<c[2], c[3]>>]])

step2d(h, p, dt, answer) ==
    LET sh == p.shape
        n2d == p.density
        \* o2d -= math.mean(o2d.data)
        m == Mean(p.omega, sh)
        o2d == Array([c \in Idx3(sh) |-> Sub(p.omega[c], m)])
        \* no poisson_solver argument is passed: the default is used
        sp == solve_poisson(o2d, DefaultSolver, answer)
        p2d == sp.phi
        dzdz == Div(R(h.kap), R(p.nu))
        dy_p == GradY(p2d, sh)
        dx_n == GradX(n2d, sh)
        dif_o == diffuse(o2d, p.rank, sh, h.N)
        dif_n == diffuse(n2d, p.rank, sh, h.N)
        brk_o == Lift(periodic_arakawa(Slice(p2d, 0, sh[2], sh[3]),
                                       Slice(o2d, 0, sh[2], sh[3]), 1, sh[2], sh[3]), sh)
        brk_n == Lift(periodic_arakawa(Slice(p2d, 0, sh[2], sh[3]),
                                       Slice(n2d, 0, sh[2], sh[3]), 1, sh[2], sh[3]), sh)
        o == Array([c \in Idx3(sh) |-> Add(Sub(dzdz, brk_o[c]), dif_o.val[c])])
        kappa == Scale(dx_n, Div(R(1), Sum(n2d, sh)))
        n == Array([c \in Idx3(sh) |->
                Add(Sub(Sub(dzdz, brk_n[c]), Mul(kappa[c], dy_p[c])), dif_n.val[c])])
        made == [path |-> "2d", dt |-> dt, input |-> p, solver |-> sp.solver,
                 rhs |-> sp.rhs, guess |-> sp.guess, phi |-> sp.phi]
    IN  IF dif_o.err # "none" THEN [status |-> dif_o.err, plasma |-> p, call |-> made]
        ELSE IF dif_n.err # "none" THEN [status |-> dif_n.err, plasma |-> p, call |-> made]
        ELSE [status |-> "ok",
              \* copied_with(density, omega, phi, age): the other fields are kept
              plasma |-> [p EXCEPT !.phi = euler(p2d, p2d, dt),
                                   !.omega = euler(o2d, o, dt),
                                   !.density = euler(n2d, n, dt),
                                   !.age = NextAge(p.age, dt)],
              call |-> made]

(***************************************************************************)
(* HasegawaWakatani.step3d(plasma, dt).  p.shape is <<Z, Y, X>>; folding   *)
(* the field-aligned axis into the batch axis keeps the index tuples.      *)
(* The terms of the right-hand sides are combined sample by sample.  The   *)
(* solver is called (line 215) before diffuse can raise (line 239).        *)
(***************************************************************************)
step3d(h, p, dt, answer) ==
    LET sh == p.shape
        n3d == p.density
        o3d == p.omega
        \* the mean is not subtracted on this path (line 214 is a comment)
        o2d == o3d
        n2d == n3d
        sp == solve_poisson(o2d, DefaultSolver, answer)
        p2d == sp.phi
        p3d == p2d
        dzdz == LaplaceZ(Minus(n3d, p3d), sh)
        laplace_phi == LaplaceZ(p3d, sh)
        laplace_n == LaplaceZ(n3d, sh)
        dy_p == GradY(p2d, sh)
        dx_n == GradX(n2d, sh)
        dif_o == diffuse(o3d, p.rank, sh, h.N)
        dif_n == diffuse(n3d, p.rank, sh, h.N)
        brk_o == periodic_arakawa_3d(p2d, o2d, 1, sh)
        brk_n == periodic_arakawa_3d(p2d, n2d, 1, sh)
        inu == Div(R(1), R(p.nu))
        o == Array([c \in Idx3(sh) |->
                Add(Sub(Mul(inu, dzdz[c]), brk_o[c]), dif_o.val[c])])
        kappa == Scale(dx_n, Div(R(1), Sum(n2d, sh)))
        n == Array([c \in Idx3(sh) |->
                Add(Sub(Sub(Mul(inu, dzdz[c]), brk_n[c]), Mul(kappa[c], dy_p[c])),
                    dif_n.val[c])])
        made == [path |-> "3d", dt |-> dt, input |-> p, solver |-> sp.solver,
                 rhs |-> sp.rhs, guess |-> sp.guess, phi |-> sp.phi]
    IN  IF dif_o.err # "none" THEN [status |-> dif_o.err, plasma |-> p, call |-> made]
        ELSE IF dif_n.err # "none" THEN [status |-> dif_n.err, plasma |-> p, call |-> made]
        ELSE [status |-> "ok",
              plasma |-> [p EXCEPT !.phi = euler(p3d, p2d, dt),
                                   !.omega = euler(o3d, o, dt),
                                   !.density = euler(n3d, n, dt),
                                   !.laplace_phi = laplace_phi,
                                   !.laplace_n = laplace_n,
                                   !.age = NextAge(p.age, dt)],
              call |-> made]

(***************************************************************************)
(* Input fields: constants, single-cell spikes and dense patterns.         *)
(***************************************************************************)
Const(sh, v) == [c \in Idx3(sh) |-> R(v)]
Spike(sh, at, v) == [c \in Idx3(sh) |-> IF c = at THEN R(v) ELSE R(0)]
Pattern(sh, s) ==
    [c \in Idx3(sh) |->
        R(((s * (1 + 5 * c[1] + 3 * c[2] + 7 * c[3]) + c[2] * c[3]) % (2 * MaxVal + 1))
          - MaxVal)]
InputFields(sh) ==
    {Const(sh, 0), Const(sh, MaxVal), Spike(sh, <<0, 0, 0>>, MaxVal),
     Spike(sh, <<sh[1] - 1, sh[2] - 1, sh[3] - 1>>, -MaxVal)}
    \cup {Pattern(sh, s) : s \in 1 .. MaxPat}
StepFields(sh) ==
    {Const(sh, 0), Spike(sh, <<0, 0, 0>>, MaxVal), Pattern(sh, 1)}

(***************************************************************************)
(* The elliptic solver (SparseCG.solve) is an external collaborator: for a *)
(* zero right-hand side and no guess it returns the zero potential,        *)
(* otherwise some potential of the same shape.                             *)
(***************************************************************************)
SolverAnswers(rhs, sh) ==
    IF \A c \in Idx3(sh) : IsZero(rhs[c]) THEN {ZeroArr(sh)}
    ELSE {Spike(sh, <<0, 0, 0>>, 1), Pattern(sh, 2)}

DtSet == {-1, 0, 1}
KapSet == {0, 1}
SolverSet == {"None", "S"}

IdleStep ==
    /\ hw = [kap |-> 0, N |-> 0, poisson_solver |-> "None"]
    /\ plasma = <<>>
    /\ status = "idle"
    /\ steps = 0
    /\ call = <<>>
IdleBracket ==
    /\ bShape = <<0, 0, 0>>
    /\ bZeta = <<>>
    /\ bPsi = <<>>
    /\ bD = 1
    /\ bOut = <<>>
IdleDiffuse ==
    /\ dIn = <<>>
    /\ dOut = <<>>

(***************************************************************************)
(* The simulation: a HasegawaWakatani object and a plasma state are        *)
(* constructed, then step is called repeatedly.  A configured kap (2D      *)
(* path) comes with a 2D state, kap = 0 with a 3D state.                   *)
(***************************************************************************)
InitStep ==
    /\ hw \in [kap : KapSet, N : -1 .. MaxN, poisson_solver : SolverSet]
    /\ LET rank == IF hw.kap # 0 THEN 2 ELSE 3
           sh == IF rank = 2 THEN <<1, NY, NX>> ELSE <<NZ, NY, NX>>
       IN  \E om \in StepFields(sh), de \in StepFields(sh), lp \in {0, 1} :
               plasma = [rank |-> rank, shape |-> sh, nu |-> Nu, age |-> 0,
                         density |-> de, omega |-> om, phi |-> ZeroArr(sh),
                         laplace_phi |-> Const(sh, lp), laplace_n |-> Const(sh, lp)]
    /\ status = "ok"
    /\ steps = 0
    /\ call = <<>>

Init == InitStep /\ IdleBracket /\ IdleDiffuse

\* step, kap configured: return self.step2d(plasma, dt=dt)
Step2d ==
    /\ status = "ok"
    /\ steps < MaxSteps
    /\ hw.kap # 0
    /\ \E dt \in DtSet :
        LET m == Mean(plasma.omega, plasma.shape)
            rhs == [c \in Idx3(plasma.shape) |-> Sub(plasma.omega[c], m)]
        IN  \E answer \in SolverAnswers(rhs, plasma.shape) :
                \E r \in {step2d(hw, plasma, dt, answer)} :
                    /\ plasma' = r.plasma
                    /\ status' = r.status
                    /\ call' = r.call
    /\ steps' = steps + 1
    /\ UNCHANGED <<hw, bracketVars, diffuseVars>>

\* step, kap = 0: return self.step3d(plasma, dt=dt)
Step3d ==
    /\ status = "ok"
    /\ steps < MaxSteps
    /\ hw.kap = 0
    /\ \E dt \in DtSet :
        \E answer \in SolverAnswers(plasma.omega, plasma.shape) :
            \E r \in {step3d(hw, plasma, dt, answer)} :
                /\ plasma' = r.plasma
                /\ status' = r.status
                /\ call' = r.call
    /\ steps' = steps + 1
    /\ UNCHANGED <<hw, bracketVars, diffuseVars>>

Next == Step2d \/ Step3d

Spec == Init /\ [][Next]_vars


(***************************************************************************)
(* The bracket functions on their own: a stack of K slices of shape        *)
(* (H, W) and a grid spacing are drawn, then periodic_arakawa is called on *)
(* every slice (both argument orders, and zeta with itself) and            *)
(* periodic_arakawa_3d on the stack.                                       *)
(***************************************************************************)
Shapes == {1, NZ} \X (1 .. NY) \X (1 .. NX)
DSet == {1, 2}

PerSlice(a, b, d, sh) ==
    [k \in 0 .. sh[1] - 1 |->
        periodic_arakawa(Slice(a, k, sh[2], sh[3]), Slice(b, k, sh[2], sh[3]),
                         d, sh[2], sh[3])]

InitBracket ==
    /\ bShape \in Shapes
    /\ bZeta \in InputFields(bShape)
    /\ bPsi \in InputFields(bShape)
    /\ bD \in DSet
    /\ bOut = [calls |-> {}, pa |-> <<>>, paT |-> <<>>, paSelf |-> <<>>, pa3 |-> <<>>]

PeriodicArakawa ==
    /\ "periodic_arakawa" \notin bOut.calls
    /\ bOut' = [bOut EXCEPT !.calls = @ \cup {"periodic_arakawa"},
                            !.pa = PerSlice(bZeta, bPsi, bD, bShape),
                            !.paT = PerSlice(bPsi, bZeta, bD, bShape),
                            !.paSelf = PerSlice(bZeta, bZeta, bD, bShape)]
    /\ UNCHANGED <<stepVars, diffuseVars, bShape, bZeta, bPsi, bD>>

PeriodicArakawa3d ==
    /\ "periodic_arakawa_3d" \notin bOut.calls
    /\ bOut' = [bOut EXCEPT !.calls = @ \cup {"periodic_arakawa_3d"},
                            !.pa3 = periodic_arakawa_3d(bZeta, bPsi, bD, bShape)]
    /\ UNCHANGED <<stepVars, diffuseVars, bShape, bZeta, bPsi, bD>>

NextBracket == PeriodicArakawa \/ PeriodicArakawa3d

InitB == IdleStep /\ InitBracket /\ IdleDiffuse

SpecBracket == InitB /\ [][NextBracket]_vars

BracketCells == Idx2(bShape[2], bShape[3])

(***************************************************************************)
(* C5: bracket antisymmetry.  For all same-shaped 2D fields a, b on a      *)
(* periodic grid, periodic_arakawa(a, b) = -periodic_arakawa(b, a) at      *)
(* every cell, and periodic_arakawa(a, a) = 0 at every cell.               *)
(***************************************************************************)
C5_BracketAntisymmetry ==
    "periodic_arakawa" \in bOut.calls =>
        \A k \in 0 .. bShape[1] - 1 : \A c \in BracketCells :
            /\ bOut.pa[k][c] = Neg(bOut.paT[k][c])
            /\ bOut.paSelf[k][c] = R(0)

\* both argument orders were evaluated and the bracket is non-zero somewhere
C5_Witness ==
    /\ "periodic_arakawa" \in bOut.calls
    /\ bZeta # bPsi
    /\ \E k \in 0 .. bShape[1] - 1 : \E c \in BracketCells : bOut.pa[k][c] # R(0)

(***************************************************************************)
(* C9: the batched bracket is the 2D bracket applied slice by slice with   *)
(* the same divisor 4*d^2: periodic_arakawa_3d(zeta, psi, d)[k] =          *)
(* periodic_arakawa(zeta[k], psi[k], d) for each slice k.                  *)
(***************************************************************************)
C9_BatchedEqualsSliced ==
    bOut.calls = {"periodic_arakawa", "periodic_arakawa_3d"} =>
        \A c \in Idx3(bShape) : bOut.pa3[c] = bOut.pa[c[1]][<<c[2], c[3]>>]


(***************************************************************************)
(* diffuse on its own: a field of rank 2 or 3 and two orders N1, N2 are    *)
(* drawn; diffuse(f, N1) and diffuse(f, N1 + N2) are called, then          *)
(* diffuse on the array the first call returned, with order N2.            *)
(***************************************************************************)
InitDiffuse ==
    /\ \E rank \in {2, 3} :
        LET sh == IF rank = 2 THEN <<1, NY, NX>> ELSE <<NZ, NY, NX>>
        IN  \E f \in InputFields(sh), N1 \in -1 .. MaxN, N2 \in -1 .. MaxN :
                dIn = [rank |-> rank, shape |-> sh, field |-> f, N1 |-> N1, N2 |-> N2]
    /\ dOut = [calls |-> 0, single |-> <<>>, direct |-> <<>>, composed |-> <<>>]

Diffuse ==
    /\ dOut.calls = 0
    /\ dOut' = [dOut EXCEPT
                  !.calls = 1,
                  !.single = diffuse(dIn.field, dIn.rank, dIn.shape, dIn.N1),
                  !.direct = diffuse(dIn.field, dIn.rank, dIn.shape, dIn.N1 + dIn.N2)]
    /\ UNCHANGED <<stepVars, bracketVars, dIn>>

\* the second call is reached only when the first returned
DiffuseAgain ==
    /\ dOut.calls = 1
    /\ dOut' = [dOut EXCEPT
                  !.calls = 2,
                  !.composed = IF dOut.single.err # "none" THEN dOut.single
                               ELSE diffuse(dOut.single.val, dIn.rank, dIn.shape, dIn.N2)]
    /\ UNCHANGED <<stepVars, bracketVars, dIn>>

NextDiffuse == Diffuse \/ DiffuseAgain

InitD == IdleStep /\ IdleBracket /\ InitDiffuse

SpecDiffuse == InitD /\ [][NextDiffuse]_vars

(***************************************************************************)
(* C6: diffusion composition.  For every field f (with or without a        *)
(* field-aligned axis) and all N1, N2 >= 0, diffuse(f, N1 + N2) =          *)
(* diffuse(diffuse(f, N1), N2), and diffuse(f, 0) is the zero field.       *)
(***************************************************************************)
C6_DiffusionComposition ==
    (dOut.calls = 2 /\ dIn.N1 >= 0 /\ dIn.N2 >= 0) =>
        /\ dOut.direct.err = "none"
        /\ dOut.composed.err = "none"
        /\ dOut.direct.val = dOut.composed.val
        /\ dIn.N1 = 0 => dOut.single.val = ZeroArr(dIn.shape)

(***************************************************************************)
(* C8: an invalid diffusion order is rejected.  For every field and every  *)
(* N < 0, diffuse(field, N) ends in an error and returns no field value.   *)
(***************************************************************************)
C8_NegativeOrderRejected ==
    (dOut.calls >= 1 /\ dIn.N1 < 0) => dOut.single.err # "none"

(***************************************************************************)
(* Claims about step.  call holds the last call's input state, dt, and the *)
(* solver invocation it made.                                              *)
(***************************************************************************)
Stepped == steps > 0
Returned == steps > 0 /\ status = "ok"
AllZero(A) == \A c \in DOMAIN A : A[c] = R(0)

(***************************************************************************)
(* C1 (as stated): for every step call, on both paths and for every dt the *)
(* step accepts, the returned age equals plasma.age + dt and is strictly   *)
(* greater than plasma.age.                                                *)
(***************************************************************************)
C1_AgeStrictlyIncreases ==
    Returned =>
        /\ plasma.age = call.input.age + call.dt
        /\ plasma.age > call.input.age

(***************************************************************************)
(* C1 (amended): for every step call that returns, on both paths and for   *)
(* every dt, the returned age equals plasma.age + dt; it is greater than   *)
(* plasma.age exactly when dt > 0, equal for dt = 0, smaller for dt < 0.   *)
(***************************************************************************)
C1_AgeAdvancesByDt ==
    Returned =>
        /\ plasma.age = call.input.age + call.dt
        /\ (plasma.age > call.input.age) <=> (call.dt > 0)
        /\ (plasma.age = call.input.age) <=> (call.dt = 0)

\* a 3D step with a negative dt returned
C1_Witness == Returned /\ call.path = "3d" /\ call.dt < 0

(***************************************************************************)
(* C2: in every step, on both paths and for every input vorticity, the     *)
(* right-hand side passed to the solver has spatial mean zero, and it is   *)
(* passed with guess=None.                                                 *)
(***************************************************************************)
C2_SolverRhsZeroMean ==
    Stepped => (Mean(call.rhs, plasma.shape) = R(0) /\ call.guess = "None")

(***************************************************************************)
(* C3: the returned laplace_phi and laplace_n are the field-aligned        *)
(* Laplacians of that step's potential and density (the solver's or the    *)
(* returned potential, the input or the returned density), on either path, *)
(* and the returned density, omega and phi are those of the same call on   *)
(* an input whose diagnostics are zero.                                    *)
(***************************************************************************)
C3_DiagnosticsRecomputed ==
    Returned =>
        LET sh == plasma.shape
            blank == [call.input EXCEPT !.laplace_phi = ZeroArr(sh),
                                        !.laplace_n = ZeroArr(sh)]
            again == IF call.path = "2d" THEN step2d(hw, blank, call.dt, call.phi)
                     ELSE step3d(hw, blank, call.dt, call.phi)
        IN  /\ plasma.laplace_phi \in {LaplaceZ(call.phi, sh), LaplaceZ(plasma.phi, sh)}
            /\ plasma.laplace_n \in {LaplaceZ(call.input.density, sh),
                                     LaplaceZ(plasma.density, sh)}
            /\ plasma.density = again.plasma.density
            /\ plasma.omega = again.plasma.omega
            /\ plasma.phi = again.plasma.phi

(***************************************************************************)
(* C4: the solver handle given at construction is the one used: every      *)
(* Poisson solve of step invokes the configured solver, and the default    *)
(* conjugate-gradient solver only when none was configured.                *)
(***************************************************************************)
C4_ConfiguredSolverUsed ==
    Stepped =>
        call.solver = IF hw.poisson_solver = "None" THEN DefaultSolver
                      ELSE hw.poisson_solver

(***************************************************************************)
(* C7: zero-field fixed point.  If omega = 0 and density = 0 everywhere    *)
(* and kap = 0, one step (any dt, any diffusion order N >= 0) completes    *)
(* and returns density, omega and phi that are zero everywhere.            *)
(***************************************************************************)
C7_ZeroFieldFixedPoint ==
    (Stepped /\ hw.kap = 0 /\ hw.N >= 0
        /\ AllZero(call.input.omega) /\ AllZero(call.input.density)) =>
        /\ status = "ok"
        /\ AllZero(plasma.density)
        /\ AllZero(plasma.omega)
        /\ AllZero(plasma.phi)

(***************************************************************************)
(* C10: the potential in the returned state is exactly the potential the   *)
(* solver returned in that step, for every dt, on both paths.              *)
(***************************************************************************)
C10_PhiIsSolverPotential ==
    Returned => plasma.phi = call.phi

=============================================================================
